---- MODULE Spec2Model ----
(***************************************************************************)
(* Newsletter processing pipeline of ai-newsletter-translated:            *)
(* createServer / scheduleTasks / processNewsletter / processUserGroup,    *)
(* scrapeAllSources / scrapeSource / getMostInterestingArticle,            *)
(* translateArticles / translateArticle, getMailConfigPack,                *)
(* sendEmails / sendEmail.                                                 *)
(*                                                                         *)
(* The program runs on one JavaScript event loop.  One action of the model *)
(* is one macrotask: the completion of one outbound call (store read, page *)
(* fetch, LLM call, template render, SMTP send) together with every        *)
(* continuation that runs synchronously or as a microtask after it, up to  *)
(* the next outbound call.                                                 *)
(*                                                                         *)
(* JavaScript strings that the code inspects are sequences of one-character*)
(* strings; JavaScript values that may be a string, a number or undefined  *)
(* are records [type, str, num].                                           *)
(***************************************************************************)
EXTENDS Integers, Sequences, FiniteSets, TLC

\* ------------------------------------------------------------------ bounds
\* Buckets (country, language) in one subscriber snapshot.
MaxGroups == 2
\* Subscribers in one snapshot, over all buckets.
MaxUsers == 2
\* Sources handed to one stand-alone scrapeAllSources call.
MaxSources == 2
\* Subscriber API requests served in one behaviour.
MaxApiCalls == 2
\* Articles handed to one stand-alone translateArticles call.
MaxArticles == 2
\* Runs that ended in the catch block of processNewsletter after which the
\* cron job is still followed.
MaxRunErrors == 2

\* ------------------------------------------------------- JavaScript values
Str(s) == [type |-> "string", str |-> s, num |-> 0]
Num(n) == [type |-> "number", str |-> <<>>, num |-> n]
Undefined == [type |-> "undefined", str |-> <<>>, num |-> 0]

\* ToBoolean: "", 0 and undefined are falsy.
Truthy(v) ==
  CASE v.type = "string" -> v.str # <<>>
    [] v.type = "number" -> v.num # 0
    [] OTHER -> FALSE

Digits == <<"0", "1", "2", "3", "4", "5", "6", "7", "8", "9">>
IsDigit(c) == \E i \in 1..Len(Digits) : Digits[i] = c
DigitValue(c) == (CHOOSE i \in 1..Len(Digits) : Digits[i] = c) - 1

\* String(n) for a non-negative integer n.
RECURSIVE NumberToString(_)
NumberToString(n) ==
  IF n < Len(Digits) THEN <<Digits[n + 1]>>
  ELSE NumberToString(n \div Len(Digits)) \o <<Digits[(n % Len(Digits)) + 1]>>

\* ToString of a value, as a template literal or RegExp.test coerces it.
JSToString(v) ==
  CASE v.type = "string" -> v.str
    [] v.type = "number" -> NumberToString(v.num)
    [] OTHER -> <<"u", "n", "d", "e", "f", "i", "n", "e", "d">>

\* s.split(":")[0]: the text before the first ':', all of s when it has none.
SplitHead(s) ==
  IF \E i \in 1..Len(s) : s[i] = ":"
  THEN SubSeq(s, 1, (CHOOSE i \in 1..Len(s) :
                       s[i] = ":" /\ \A j \in 1..(i - 1) : s[j] # ":") - 1)
  ELSE s

\* A property key is an array index iff it is the canonical decimal form of
\* a non-negative integer: digits only, no sign, no blank, no leading zero.
IsArrayIndex(key) ==
  /\ Len(key) > 0
  /\ \A i \in 1..Len(key) : IsDigit(key[i])
  /\ (Len(key) > 1 => key[1] # "0")

RECURSIVE KeyToNumber(_)
KeyToNumber(key) ==
  IF key = <<>> THEN 0
  ELSE 10 * KeyToNumber(SubSeq(key, 1, Len(key) - 1)) + DigitValue(key[Len(key)])

LengthKey == <<"l", "e", "n", "g", "t", "h">>

\* arr[key] for an array of strings and a string key: the element for an
\* index in range, arr.length for "length", undefined for any other key the
\* model draws.
ArrayGet(arr, key) ==
  IF IsArrayIndex(key) /\ KeyToNumber(key) < Len(arr)
  THEN Str(arr[KeyToNumber(key) + 1])
  ELSE IF key = LengthKey THEN Num(Len(arr))
  ELSE Undefined

HasPrefix(s, p) == Len(s) >= Len(p) /\ SubSeq(s, 1, Len(p)) = p

\* /^http(s?):\/\//.test(s)
IsAbsoluteUrl(s) ==
  \/ HasPrefix(s, <<"h", "t", "t", "p", ":", "/", "/">>)
  \/ HasPrefix(s, <<"h", "t", "t", "p", "s", ":", "/", "/">>)

\* new URL(rel, base).href for the bases of the model, which are an origin
\* followed by "/": a path-absolute reference replaces the path, any other
\* relative reference is appended to it.
ResolveUrl(rel, base) ==
  IF HasPrefix(rel, <<"/">>) THEN SubSeq(base, 1, Len(base) - 1) \o rel
  ELSE base \o rel

\* ------------------------------------------------------------ page inputs
UrlPA == <<"h", "t", "t", "p", "s", ":", "/", "/", "p", "/">>
UrlCR == <<"h", "t", "t", "p", "s", ":", "/", "/", "c", "/">>
UrlMX == <<"h", "t", "t", "p", "s", ":", "/", "/", "m", "/">>
UrlXX == <<"h", "t", "t", "p", "s", ":", "/", "/", "x", "/">>

\* What the listing page yields under titleSelector / linkSelector: a page
\* with more titles than links, and a page where the selectors match nothing.
Pages ==
  { [titles |-> << <<"A">>, <<"B">> >>, links |-> << <<"/", "a">> >>],
    [titles |-> <<>>, links |-> <<>>] }

\* The listing pages of a stand-alone scrape: also a page whose first title
\* is blank and whose first link has no href.
AllPages ==
  Pages \cup { [titles |-> << <<>>, <<"B">> >>,
                links |-> << <<>>, <<"/", "b">> >>] }

\* Trimmed text under contentSelector: nothing matched, or a body.
Contents == { <<>>, <<"b">> }

\* Replies of the selection LLM call.
ReplyInRange == <<"0", ":", "A">>
ReplyNoLink == <<"1", ":", "B">>
ReplyOutOfRange == <<"5", ":", "X">>
ReplyNegative == <<"-", "1", ":", "X">>
ReplyWords == <<"n", "o", ":", "A">>
ReplyLength == <<"l", "e", "n", "g", "t", "h", ":", "A">>
ReplyPadded == <<" ", "0", ":", "A">>
ReplyEmpty == <<>>

Replies ==
  { ReplyInRange, ReplyNoLink, ReplyOutOfRange, ReplyNegative, ReplyWords,
    ReplyLength, ReplyPadded, ReplyEmpty }

\* The replies drawn inside a run of the whole pipeline.
GroupReplies == { ReplyInRange, ReplyNoLink, ReplyOutOfRange }

\* ------------------------------------------------------------ scrapeSource
\* One scrapeSource call: pc is the outbound call it awaits ("listing",
\* "selecting", "fetching"), "returned" or "threw" once it settled.
NoArticle == [title |-> Undefined, content |-> <<>>, link |-> Undefined]

IdleJob ==
  [pc |-> "idle", url |-> <<>>, titles |-> <<>>, links |-> <<>>,
   index |-> <<>>, title |-> Undefined, link |-> Undefined, composedLink |-> Undefined,
   hasArticle |-> FALSE, article |-> NoArticle,
   pageFetches |-> 0, llmCalls |-> 0, errors |-> 0]

\* scrapeSource is entered: getMostInterestingArticle issues fetch(source.url).
StartScrape(source) ==
  [IdleJob EXCEPT !.pc = "listing", !.url = source.url, !.pageFetches = 1]

\* The call settled: its locals are gone, its result and its counts remain.
Settle(job) ==
  [job EXCEPT !.pc = "returned", !.titles = <<>>, !.links = <<>>,
              !.index = <<>>, !.title = Undefined, !.link = Undefined,
              !.composedLink = Undefined]

\* Mutant of ScrapeCaught: the catch block logs and rethrows.
ScrapeRethrows(job) == [job EXCEPT !.pc = "threw", !.errors = @ + 1]

\* catch (error) { console.error(...); return; }
ScrapeCaught(job) ==
  [Settle(job) EXCEPT !.hasArticle = FALSE, !.article = NoArticle,
                      !.errors = @ + 1]

\* The listing page arrived (or the fetch failed): titles and links are
\* extracted and the selection prompt is sent.
AfterListing(job, ok, page) ==
  IF ~ok THEN ScrapeCaught(job)
  ELSE [job EXCEPT !.pc = "selecting", !.titles = page.titles,
                   !.links = page.links, !.llmCalls = @ + 1]

\* return { title: titles[index], content: "", link: links[index] || "" }
SelectedTitle(titles, reply) == ArrayGet(titles, SplitHead(reply))

\* Mutant of SelectedLink: links[index] is returned as it is.
SelectedLinkRaw(links, reply) == ArrayGet(links, SplitHead(reply))

SelectedLink(links, reply) ==
  IF Truthy(ArrayGet(links, SplitHead(reply)))
  THEN ArrayGet(links, SplitHead(reply))
  ELSE Str(<<>>)

\* if (link && !/^http(s?):\/\//.test(link)) composedLink = new URL(link, source.url).href
ComposeLink(link, url) ==
  IF Truthy(link) /\ ~IsAbsoluteUrl(JSToString(link))
  THEN Str(ResolveUrl(JSToString(link), url))
  ELSE link

\* The selection reply arrived (or callGPT4 threw): the pair is read off the
\* arrays and fetch(composedLink) is issued.
AfterSelection(job, ok, reply) ==
  IF ~ok THEN ScrapeCaught(job)
  ELSE [job EXCEPT !.pc = "fetching",
                   !.index = SplitHead(reply),
                   !.title = SelectedTitle(job.titles, reply),
                   !.link = SelectedLink(job.links, reply),
                   !.composedLink =
                     ComposeLink(SelectedLink(job.links, reply), job.url),
                   !.pageFetches = @ + 1]

\* Mutant of AfterArticleFetch: the content is not tested.
AfterArticleFetchNoContentCheck(job, ok, content) ==
  IF ~ok THEN ScrapeCaught(job)
  ELSE IF Truthy(job.title) /\ Truthy(job.composedLink)
  THEN [Settle(job) EXCEPT
          !.hasArticle = TRUE,
          !.article = [title |-> job.title, content |-> content,
                       link |-> job.link]]
  ELSE Settle(job)

\* if (title && content && composedLink) return { title, content, link }
\* and otherwise the function falls off its end.
AfterArticleFetch(job, ok, content) ==
  IF ~ok THEN ScrapeCaught(job)
  ELSE IF Truthy(job.title) /\ content # <<>> /\ Truthy(job.composedLink)
  THEN [Settle(job) EXCEPT
          !.hasArticle = TRUE,
          !.article = [title |-> job.title, content |-> content,
                       link |-> job.link]]
  ELSE Settle(job)

\* ------------------------------------------------------- scrapeAllSources
RECURSIVE FilterArticles(_)
\* articlesArrays.filter(article => article !== undefined).flat()
FilterArticles(jobs) ==
  IF jobs = <<>> THEN <<>>
  ELSE (IF Head(jobs).hasArticle THEN <<Head(jobs).article>> ELSE <<>>)
       \o FilterArticles(Tail(jobs))

\* await Promise.all(scrapePromises): rejected as soon as one promise is,
\* fulfilled once all are.
ScrapeAllOutcome(jobs) ==
  IF \E i \in 1..Len(jobs) : jobs[i].pc = "threw" THEN "threw"
  ELSE IF \A i \in 1..Len(jobs) : jobs[i].pc = "returned" THEN "returned"
  ELSE "pending"

\* ------------------------------------------------------------ configuration
Lower ==
  <<"a", "b", "c", "d", "e", "f", "g", "h", "i", "j", "k", "l", "m",
    "n", "o", "p", "q", "r", "s", "t", "u", "v", "w", "x", "y", "z">>
Upper ==
  <<"A", "B", "C", "D", "E", "F", "G", "H", "I", "J", "K", "L", "M",
    "N", "O", "P", "Q", "R", "S", "T", "U", "V", "W", "X", "Y", "Z">>

\* String.prototype.toUpperCase on the letters a-z.
ToUpperCase(s) ==
  [i \in 1..Len(s) |->
     IF \E k \in 1..Len(Lower) : Lower[k] = s[i]
     THEN Upper[CHOOSE k \in 1..Len(Lower) : Lower[k] = s[i]]
     ELSE s[i]]

\* A news source is its url and its country; one that was stored without a
\* country has no such field.
SourcesAll ==
  << [url |-> UrlPA, country |-> <<"p", "a">>],
     [url |-> UrlCR, country |-> <<"C", "R">>] >>
SourcesPartial ==
  << [url |-> UrlXX, country |-> <<"P">>],
     [url |-> UrlPA, country |-> <<"P", "a">>] >>
SourcesMalformed ==
  << [url |-> UrlPA, country |-> <<"P", "A">>],
     [url |-> UrlXX] >>

EmailComplete ==
  [host |-> <<"h">>, port |-> 587, user |-> <<"u">>, pass |-> <<"p">>,
   newsletterSubject |-> <<"S">>]
EmailIncomplete == [EmailComplete EXCEPT !.host = <<>>]

ApiKey == <<"s", "k">>

\* The configuration documents the store may hold: nothing validates one
\* when it is posted or when it is loaded.
Configs ==
  { [openAiApiKey |-> ApiKey, email |-> EmailComplete, newsSources |-> SourcesAll],
    [openAiApiKey |-> ApiKey, email |-> EmailComplete, newsSources |-> SourcesPartial],
    [openAiApiKey |-> ApiKey, email |-> EmailComplete, newsSources |-> SourcesMalformed],
    [openAiApiKey |-> <<>>, email |-> EmailComplete, newsSources |-> SourcesAll],
    [openAiApiKey |-> ApiKey, email |-> EmailIncomplete, newsSources |-> SourcesAll] }

NoConfig == [openAiApiKey |-> <<>>, email |-> EmailIncomplete, newsSources |-> <<>>]

\* if (!host || !port || !auth?.user || !auth?.pass)
MailConfigComplete(email) ==
  /\ email.host # <<>>
  /\ email.port # 0
  /\ email.user # <<>>
  /\ email.pass # <<>>

\* ---------------------------------------------------------------- snapshot
GroupCountries == << <<"P", "A">>, <<"c", "r">> >>
GroupLanguages == << <<"e", "n">>, <<"e", "s">> >>

\* The (country, language) key of the g-th bucket of a snapshot.
GroupCountry(g) == GroupCountries[((g - 1) % Len(GroupCountries)) + 1]
GroupLanguage(g) ==
  GroupLanguages[(((g - 1) \div Len(GroupCountries)) % Len(GroupLanguages)) + 1]

UserEmail(k) == NumberToString(k) \o <<"@", "x">>

RECURSIVE SumTo(_, _)
SumTo(f, n) == IF n = 0 THEN 0 ELSE f[n] + SumTo(f, n - 1)

\* Bucket sizes of a snapshot: MaxUsers subscribers over MaxGroups buckets.
BucketSizes ==
  { c \in [1..MaxGroups -> 0..MaxUsers] : SumTo(c, MaxGroups) = MaxUsers }

\* The users of bucket g: subscribers are numbered bucket after bucket.
BucketUsers(c, g) ==
  [i \in 1..c[g] |-> [email |-> UserEmail(SumTo(c, g - 1) + i)]]

\* ------------------------------------------------------- subscriber store
\* The newsletterUsers collection: one document per address, the address
\* being the document id.  Document k has the address UserEmail(k).
StoreCountries == { <<"P", "A">>, <<"c", "r">> }
StoreLanguages == { <<"e", "n">>, <<"e", "s">> }

NoDoc == [present |-> FALSE, language |-> <<>>, countryOfResidence |-> <<>>]

Doc(language, country) ==
  [present |-> TRUE, language |-> language, countryOfResidence |-> country]

RECURSIVE ListDocuments(_, _)
\* response.documents.map(convertFromFirestoreDocument): the users of the
\* collection in document order, from document k on.
ListDocuments(st, k) ==
  IF k > MaxUsers THEN <<>>
  ELSE (IF st[k].present
        THEN << [email |-> UserEmail(k), language |-> st[k].language,
                 countryOfResidence |-> st[k].countryOfResidence] >>
        ELSE <<>>)
       \o ListDocuments(st, k + 1)

\* Mutant of PushLanguage: the user is pushed to the first language list of
\* the country.
PushLanguageFirst(languages, user) ==
  IF languages # <<>>
  THEN [languages EXCEPT ![1].users = Append(@, user)]
  ELSE Append(languages, [language |-> user.language, users |-> <<user>>])

\* groupedUsers[countryOfResidence][language] ??= []; ....push(user)
PushLanguage(languages, user) ==
  IF \E j \in 1..Len(languages) : languages[j].language = user.language
  THEN [languages EXCEPT
          ![CHOOSE j \in 1..Len(languages) : languages[j].language = user.language]
             .users = Append(@, user)]
  ELSE Append(languages, [language |-> user.language, users |-> <<user>>])

\* One step of the reduce: groupedUsers[countryOfResidence] ??= {} and the
\* push.  Keys keep their insertion order.
GroupUser(groupedUsers, user) ==
  IF \E i \in 1..Len(groupedUsers) :
       groupedUsers[i].country = user.countryOfResidence
  THEN [groupedUsers EXCEPT
          ![CHOOSE i \in 1..Len(groupedUsers) :
              groupedUsers[i].country = user.countryOfResidence]
             .languages = PushLanguage(@, user)]
  ELSE Append(groupedUsers,
              [country |-> user.countryOfResidence,
               languages |-> PushLanguage(<<>>, user)])

RECURSIVE ReduceUsers(_, _)
\* users.reduce((groupedUsers, user) => ..., groupedUsers)
ReduceUsers(groupedUsers, users) ==
  IF users = <<>> THEN groupedUsers
  ELSE ReduceUsers(GroupUser(groupedUsers, Head(users)), Tail(users))

\* getUsersGroupedByLanguageAndCountry once the collection was listed.
GetUsersGrouped(users) == ReduceUsers(<<>>, users)

RECURSIVE FlattenGroups(_)
\* Object.entries(groupedUsers).flatMap(([country, languages]) =>
\*   Object.entries(languages).map(([language, users]) => ...))
FlattenGroups(groupedUsers) ==
  IF groupedUsers = <<>> THEN <<>>
  ELSE [j \in 1..Len(Head(groupedUsers).languages) |->
          [country |-> Head(groupedUsers).country,
           language |-> Head(groupedUsers).languages[j].language,
           users |-> Head(groupedUsers).languages[j].users]]
       \o FlattenGroups(Tail(groupedUsers))

\* ---------------------------------------------------------- translateArticle
RECURSIVE ReplaceAll(_, _)
\* s.replaceAll(pat, "") for a non-empty pat.
ReplaceAll(s, pat) ==
  IF Len(s) < Len(pat) THEN s
  ELSE IF HasPrefix(s, pat) THEN ReplaceAll(SubSeq(s, Len(pat) + 1, Len(s)), pat)
  ELSE <<Head(s)>> \o ReplaceAll(Tail(s), pat)

\* The grave accent (U+0060) is written "~" in the model's alphabet.
Backtick == "~"
Fence == <<Backtick, Backtick, Backtick>>
FenceHtml == Fence \o <<"h", "t", "m", "l">>

\* Mutant of StripFences: the two replacements are made in the other order.
StripFencesReversed(content) == ReplaceAll(ReplaceAll(content, Fence), FenceHtml)

\* content.replaceAll(FenceHtml, "").replaceAll(Fence, "")
StripFences(content) == ReplaceAll(ReplaceAll(content, FenceHtml), Fence)

\* Replies of the two translation calls.
ContentReplies == { <<"c">>, FenceHtml \o <<"c">> \o Fence }
TitleReplies == { <<"T">> }

IdleTask ==
  [pc |-> "idle", article |-> NoArticle, language |-> <<>>, content |-> <<>>,
   result |-> NoArticle, llmCalls |-> 0]

\* Mutant of StartTranslate: the key is not checked before the content prompt.
StartTranslateNoKeyCheck(cfg, article, translationLanguage) ==
  [IdleTask EXCEPT !.pc = "content", !.article = article,
                   !.language = translationLanguage, !.llmCalls = 1]

\* translateArticle is entered: the key check, then the content prompt.
StartTranslate(cfg, article, translationLanguage) ==
  IF cfg.openAiApiKey = <<>>
  THEN [IdleTask EXCEPT !.pc = "threw", !.article = article,
                        !.language = translationLanguage]
  ELSE [IdleTask EXCEPT !.pc = "content", !.article = article,
                        !.language = translationLanguage, !.llmCalls = 1]

\* The content reply arrived (or callGPT4 threw): the title prompt is sent.
AfterContent(task, ok, reply) ==
  IF ~ok THEN [task EXCEPT !.pc = "threw"]
  ELSE [task EXCEPT !.pc = "title", !.content = reply, !.llmCalls = @ + 1]

\* Mutant of AfterTitle: the spread comes last, so the fields of the input
\* article override the translated ones.
AfterTitleSpreadLast(task, ok, reply) ==
  IF ~ok THEN [task EXCEPT !.pc = "threw"]
  ELSE [task EXCEPT !.pc = "returned", !.result = task.article]

\* return { ...article, content: <cleaned>, title }
AfterTitle(task, ok, reply) ==
  IF ~ok THEN [task EXCEPT !.pc = "threw"]
  ELSE [task EXCEPT !.pc = "returned",
                    !.result = [title |-> Str(reply),
                                content |-> StripFences(task.content),
                                link |-> task.article.link]]

\* Mutant of TranslateAllOutcome: the batch waits for every translation and
\* is fulfilled whatever failed.
TranslateAllSettled(tasks) ==
  IF \A i \in 1..Len(tasks) : tasks[i].pc \in {"returned", "threw"}
  THEN "returned"
  ELSE "pending"

\* await Promise.all(articles.map(translateArticle))
TranslateAllOutcome(tasks) ==
  IF \E i \in 1..Len(tasks) : tasks[i].pc = "threw" THEN "threw"
  ELSE IF \A i \in 1..Len(tasks) : tasks[i].pc = "returned" THEN "returned"
  ELSE "pending"

\* ------------------------------------------------------ sendEmail, sendEmails
Contains(s, c) == \E i \in 1..Len(s) : s[i] = c

\* value.trim() === "" for the blanks the model draws.
IsBlank(s) == \A i \in 1..Len(s) : s[i] = " "

\* validateEmailString: a non-empty string after trimming.
ValidEmailString(s) == ~IsBlank(s)

\* subscribers.every(sub => typeof sub === "string" && sub.includes("@"))
ValidSubscribers(subscribers) ==
  \A i \in 1..Len(subscribers) :
    subscribers[i].type = "string" /\ Contains(subscribers[i].str, "@")

\* articles.every(a => a && typeof a.title === "string" && typeof a.content === "string");
\* the content of every article the model draws is a string.
ValidArticles(articles) ==
  \A i \in 1..Len(articles) : articles[i].title.type = "string"

\* What rendering the template yields: a document, nothing (email || ""),
\* or an exception of evalDenoFile.
RenderOutcomes == {"html", "empty", "throws"}

\* The callback of one recipient of subscribers.map: generateEmailContent is
\* called with the articles and `${unsubscribeLink}/${subscriber}` and awaited
\* before the try block is entered.
StartRecipient(subscriber, articles, unsubscribeLink) ==
  [pc |-> "render", to |-> subscriber, sends |-> 0,
   articles |-> articles,
   unsubscribeLink |-> unsubscribeLink \o <<"/">> \o subscriber]

\* The render settled.  A throw rejects the callback's promise; otherwise
\* sendEmail validates its three strings (a throw is caught by sendEmails)
\* and hands the message to the transport.
AfterRender(r, outcome, subject) ==
  IF outcome = "throws" THEN [r EXCEPT !.pc = "renderThrew"]
  ELSE IF /\ ValidEmailString(r.to)
          /\ ValidEmailString(subject)
          /\ ValidEmailString(IF outcome = "html" THEN <<"<">> ELSE <<>>)
  THEN [r EXCEPT !.pc = "send", !.sends = @ + 1]
  ELSE [r EXCEPT !.pc = "invalid"]

\* Mutant of AfterSend: a failed sendMail is handed to the transport again.
AfterSendRetried(r, ok) ==
  IF ok THEN [r EXCEPT !.pc = "sent"] ELSE [r EXCEPT !.sends = @ + 1]

\* transporter.sendMail settled: a failure is caught inside sendEmail.
AfterSend(r, ok) == [r EXCEPT !.pc = IF ok THEN "sent" ELSE "sendFailed"]

RecipientFulfilled(r) == r.pc \in {"sent", "sendFailed", "invalid"}

\* await Promise.all(emailPromises)
SendEmailsOutcome(rcp) ==
  IF \E i \in 1..Len(rcp) : rcp[i].pc = "renderThrew" THEN "threw"
  ELSE IF \A i \in 1..Len(rcp) : RecipientFulfilled(rcp[i]) THEN "returned"
  ELSE "pending"

\* --------------------------------------------------------- processUserGroup
IdleGroup ==
  [pc |-> "none", country |-> <<>>, language |-> <<>>, users |-> <<>>,
   source |-> 0, job |-> IdleJob, articles |-> <<>>, tr |-> <<>>,
   sendPc |-> "none", rcp |-> <<>>, transports |-> 0, errors |-> 0]

RECURSIVE FindFrom(_, _, _)
\* config.newsSources.find(src => src.country.toUpperCase() === country.toUpperCase()):
\* the first match; reading toUpperCase of a missing country throws.
FindFrom(sources, i, country) ==
  IF i > Len(sources) THEN [kind |-> "none", index |-> 0]
  ELSE IF "country" \notin DOMAIN sources[i] THEN [kind |-> "throws", index |-> i]
  ELSE IF ToUpperCase(sources[i].country) = ToUpperCase(country)
  THEN [kind |-> "found", index |-> i]
  ELSE FindFrom(sources, i + 1, country)

FindSource(sources, country) == FindFrom(sources, 1, country)

\* catch (error) { errorLog(`Error processing group for ...`, error); }
GroupCatch(G) == [G EXCEPT !.pc = "failed", !.errors = @ + 1]

RECURSIVE ValidEntries(_)
\* The entries of a subscribers list that pass the check of one entry.
ValidEntries(subscribers) ==
  IF subscribers = <<>> THEN <<>>
  ELSE (IF ValidSubscribers(<<Head(subscribers)>>) THEN <<Head(subscribers)>> ELSE <<>>)
       \o ValidEntries(Tail(subscribers))

\* Mutant of StartSendEmails: an invalid subscribers list is not refused,
\* its valid entries are mailed.
StartSendEmailsPartial(G, subscribers, articles, unsubscribeLink) ==
  IF ~ValidArticles(articles)
  THEN [G EXCEPT !.sendPc = "returned"]
  ELSE [G EXCEPT !.sendPc = "pending",
                 !.rcp = [i \in 1..Len(ValidEntries(subscribers)) |->
                            StartRecipient(ValidEntries(subscribers)[i].str,
                                           articles, unsubscribeLink)]]

\* Mutant of StartSendEmails: the callbacks share one subscriber variable for
\* the link, which holds the first entry of the list.
StartSendEmailsSharedLink(G, subscribers, articles, unsubscribeLink) ==
  IF ~ValidSubscribers(subscribers) \/ ~ValidArticles(articles)
  THEN [G EXCEPT !.sendPc = "returned"]
  ELSE [G EXCEPT !.sendPc = "pending",
                 !.rcp = [i \in 1..Len(subscribers) |->
                            [StartRecipient(subscribers[i].str, articles,
                                            unsubscribeLink)
                               EXCEPT !.unsubscribeLink =
                                 unsubscribeLink \o <<"/">> \o subscribers[1].str]]]

\* sendEmails up to its first await: the two input checks, then one
\* callback per subscriber.
StartSendEmails(G, subscribers, articles, unsubscribeLink) ==
  IF ~ValidSubscribers(subscribers) \/ ~ValidArticles(articles)
  THEN [G EXCEPT !.sendPc = "returned"]
  ELSE [G EXCEPT !.sendPc = "pending",
                 !.rcp = [i \in 1..Len(subscribers) |->
                            StartRecipient(subscribers[i].str, articles,
                                           unsubscribeLink)]]

\* sendEmails once a recipient callback settled: Promise.all rejects with the
\* first rejected callback and is fulfilled once all are.
ContinueSendEmails(M) ==
  IF M.sendPc # "pending" THEN M
  ELSE [M EXCEPT !.sendPc = SendEmailsOutcome(M.rcp)]

\* The rest of processUserGroup once sendEmails settled.
ContinueDispatch(G) ==
  IF G.pc # "dispatching" THEN G
  ELSE IF G.sendPc = "returned" THEN [G EXCEPT !.pc = "done"]
  ELSE IF SendEmailsOutcome(G.rcp) = "threw"
  THEN GroupCatch([G EXCEPT !.sendPc = "threw"])
  ELSE IF SendEmailsOutcome(G.rcp) = "returned"
  THEN [G EXCEPT !.sendPc = "returned", !.pc = "done"]
  ELSE G

\* unsubscribeLink: `https://ai-newsletter-translated.onrender.com/unsubscribe`
UnsubscribeBaseLink ==
  <<"h", "t", "t", "p", "s", ":", "/", "/",
    "a", "i", "-", "n", "e", "w", "s", "l", "e", "t", "t", "e", "r", "-",
    "t", "r", "a", "n", "s", "l", "a", "t", "e", "d", ".",
    "o", "n", "r", "e", "n", "d", "e", "r", ".", "c", "o", "m", "/",
    "u", "n", "s", "u", "b", "s", "c", "r", "i", "b", "e">>

\* getMailConfigPack(config.email), then sendEmails: an incomplete email
\* configuration ends the process (Deno.exit(1)), pc "exit".
Dispatch(cfg, G) ==
  IF ~MailConfigComplete(cfg.email) THEN [G EXCEPT !.pc = "exit"]
  ELSE ContinueDispatch(
         StartSendEmails(
           [G EXCEPT !.pc = "dispatching", !.transports = @ + 1],
           [i \in 1..Len(G.users) |-> Str(G.users[i].email)],
           [i \in 1..Len(G.tr) |-> G.tr[i].result],
           UnsubscribeBaseLink))

\* Mutant of ContinueTranslate: translateArticles is started but not awaited,
\* and the scraped articles are dispatched at once.
ContinueTranslateNotAwaited(cfg, G) ==
  IF G.pc # "translating" THEN G
  ELSE IF TranslateAllOutcome(G.tr) = "threw" THEN GroupCatch(G)
  ELSE Dispatch(cfg,
         [G EXCEPT !.tr = [i \in 1..Len(G.tr) |->
                             [G.tr[i] EXCEPT !.result = G.tr[i].article]]])

\* The rest of processUserGroup once translateArticles settled.
ContinueTranslate(cfg, G) ==
  IF G.pc # "translating" THEN G
  ELSE IF TranslateAllOutcome(G.tr) = "threw" THEN GroupCatch(G)
  ELSE IF TranslateAllOutcome(G.tr) = "returned" THEN Dispatch(cfg, G)
  ELSE G

\* Mutant of ContinueScrape: the zero-articles check is missing.
ContinueScrapeNoZeroCheck(cfg, G) ==
  IF G.pc # "scraping" THEN G
  ELSE IF ScrapeAllOutcome(<<G.job>>) = "threw" THEN GroupCatch(G)
  ELSE IF ScrapeAllOutcome(<<G.job>>) = "pending" THEN G
  ELSE ContinueTranslate(cfg,
         [G EXCEPT !.pc = "translating",
                   !.articles = FilterArticles(<<G.job>>),
                   !.tr = [i \in 1..Len(FilterArticles(<<G.job>>)) |->
                             StartTranslate(cfg, FilterArticles(<<G.job>>)[i],
                                            G.language)]])

\* The rest of processUserGroup once scrapeAllSources settled.
ContinueScrape(cfg, G) ==
  IF G.pc # "scraping" THEN G
  ELSE IF ScrapeAllOutcome(<<G.job>>) = "threw" THEN GroupCatch(G)
  ELSE IF ScrapeAllOutcome(<<G.job>>) = "pending" THEN G
  ELSE IF FilterArticles(<<G.job>>) = <<>> THEN [G EXCEPT !.pc = "skippedNoArticles"]
  ELSE ContinueTranslate(cfg,
         [G EXCEPT !.pc = "translating",
                   !.articles = FilterArticles(<<G.job>>),
                   !.tr = [i \in 1..Len(FilterArticles(<<G.job>>)) |->
                             StartTranslate(cfg, FilterArticles(<<G.job>>)[i],
                                            G.language)]])

\* Mutant of ProcessUserGroup: the empty check is missing.
ProcessUserGroupNoEmptyCheck(cfg, country, language, users) ==
  IF FindSource(cfg.newsSources, country).kind = "throws"
  THEN [IdleGroup EXCEPT !.pc = "rejected", !.country = country,
                         !.language = language, !.users = users]
  ELSE IF FindSource(cfg.newsSources, country).kind = "none"
  THEN [IdleGroup EXCEPT !.pc = "skippedNoSource", !.country = country,
                         !.language = language, !.users = users]
  ELSE [IdleGroup EXCEPT
          !.pc = "scraping", !.country = country, !.language = language,
          !.users = users,
          !.source = FindSource(cfg.newsSources, country).index,
          !.job = StartScrape(
                    cfg.newsSources[FindSource(cfg.newsSources, country).index])]

\* processUserGroup up to its first await.  The empty check and the source
\* lookup stand before the try block.
ProcessUserGroup(cfg, country, language, users) ==
  IF Len(users) = 0
  THEN [IdleGroup EXCEPT !.pc = "skippedEmpty", !.country = country,
                         !.language = language]
  ELSE IF FindSource(cfg.newsSources, country).kind = "throws"
  THEN [IdleGroup EXCEPT !.pc = "rejected", !.country = country,
                         !.language = language, !.users = users]
  ELSE IF FindSource(cfg.newsSources, country).kind = "none"
  THEN [IdleGroup EXCEPT !.pc = "skippedNoSource", !.country = country,
                         !.language = language, !.users = users]
  ELSE [IdleGroup EXCEPT
          !.pc = "scraping", !.country = country, !.language = language,
          !.users = users,
          !.source = FindSource(cfg.newsSources, country).index,
          !.job = StartScrape(
                    cfg.newsSources[FindSource(cfg.newsSources, country).index])]

GroupFulfilled(G) ==
  G.pc \in {"skippedEmpty", "skippedNoSource", "skippedNoArticles", "done", "failed"}

\* --------------------------------------------------------- processNewsletter
\* await Promise.all(groups): rejected as soon as one processUserGroup
\* promise is, fulfilled once all are.
GroupsOutcome(groups) ==
  IF \E g \in DOMAIN groups : groups[g].pc = "rejected" THEN "threw"
  ELSE IF \A g \in DOMAIN groups :
            groups[g].pc # "none" => GroupFulfilled(groups[g])
  THEN "returned"
  ELSE "pending"

\* The state of the run after a macrotask left the groups as `groups`:
\* both the fulfilment and the rejection of Promise.all end inside the try
\* block of processNewsletter, whose promise is then fulfilled.
RunAfter(r, groups) ==
  IF r # "awaitingGroups" THEN r
  ELSE IF \E g \in DOMAIN groups : groups[g].pc = "exit" THEN r
  ELSE IF GroupsOutcome(groups) = "pending" THEN r
  ELSE "resolved"

\* errorLog("Error in newsletter process:", error) of this macrotask.
RunErrorsAfter(r, groups) ==
  IF r = "awaitingGroups" /\ GroupsOutcome(groups) = "threw"
     /\ ~\E g \in DOMAIN groups : groups[g].pc = "exit"
  THEN 1 ELSE 0

\* =================================================================== state
VARIABLES
  proc,       \* createServer / the process: "loading", "serving", "crashed", "exited"
  config,     \* the configuration object createServer loaded
  run,        \* processNewsletter: "idle", "fetchingUsers", "awaitingGroups",
              \* "resolved" (promise fulfilled), "rejected" (promise rejected)
  runErrors,  \* errorLog calls of processNewsletter's catch block
  snapshot,   \* the store read of the run: "none", "failed", "arrived"
  grp,        \* one processUserGroup call per bucket of the snapshot
  scr,        \* the scrapeSource calls of a stand-alone scrapeAllSources call
  allPc,      \* that call: "idle", "pending", "returned", "threw"
  allResult,  \* the array it returned
  mail,       \* a stand-alone sendEmails call: its arguments, sendPc, recipients
  store,      \* the newsletterUsers collection: document k |-> its fields
  apiCalls,   \* subscriber API requests served so far
  rename,     \* an updateNewsletterUser call that changes the address
  configDoc,  \* the document configurations/defaultConfig of the store
  tx          \* a stand-alone translateArticle call: its arguments, the
              \* replies it received, its task

vars ==
  <<proc, config, run, runErrors, snapshot, grp, scr, allPc, allResult, mail,
    store, apiCalls, rename, configDoc, tx>>

orchVars == <<proc, config, run, runErrors, snapshot, grp>>
scrapeVars == <<scr, allPc, allResult>>
sendVars == <<mail>>
storeVars == <<store, apiCalls, rename, configDoc>>
translateVars == <<tx>>

OrchIdle ==
  /\ proc = "loading"
  /\ config = NoConfig
  /\ run = "idle"
  /\ runErrors = 0
  /\ snapshot = "none"
  /\ grp = [g \in 1..MaxGroups |-> IdleGroup]

ScrapeIdle ==
  /\ scr = <<>>
  /\ allPc = "idle"
  /\ allResult = <<>>

IdleMail ==
  [sendPc |-> "none", rcp |-> <<>>, subscribers |-> <<>>, articles |-> <<>>,
   unsubscribeLink |-> <<>>]

SendIdle == mail = IdleMail

IdleRename == [pc |-> "idle", from |-> 0, to |-> 0, data |-> NoDoc]

\* The collection holds one subscriber when the server starts, and the
\* store holds a configuration document.
StoreIdle ==
  /\ store = [k \in 1..MaxUsers |->
                IF k = 1 THEN Doc(<<"e", "n">>, <<"P", "A">>) ELSE NoDoc]
  /\ apiCalls = 0
  /\ rename = IdleRename
  /\ configDoc \in Configs

IdleTx ==
  [key |-> <<>>, input |-> NoArticle, contentReply |-> <<>>,
   titleReply |-> <<>>, task |-> IdleTask]

TranslateIdle == tx = IdleTx

Init == OrchIdle /\ ScrapeIdle /\ SendIdle /\ StoreIdle /\ TranslateIdle

\* ----------------------------------------------------------- createServer
\* const config = await getConfigDocument(); ... scheduleTasks(processNewsletter(config), ...)
LoadConfig ==
  /\ proc = "loading"
  /\ config' = configDoc
  /\ proc' = "serving"
  /\ UNCHANGED <<run, runErrors, snapshot, grp, scrapeVars, sendVars, storeVars, translateVars>>

\* getConfigDocument rejected: createServer's promise is rejected unhandled.
LoadConfigFails ==
  /\ proc = "loading"
  /\ proc' = "crashed"
  /\ UNCHANGED <<config, run, runErrors, snapshot, grp, scrapeVars, sendVars, storeVars, translateVars>>

\* -------------------------------------------------------- processNewsletter
\* The cron job fires: the run starts and asks the store for the snapshot.
Tick ==
  /\ proc = "serving"
  /\ run = "idle"
  /\ run' = "fetchingUsers"
  /\ UNCHANGED <<proc, config, runErrors, snapshot, grp, scrapeVars, sendVars, storeVars, translateVars>>

\* Mutant of SnapshotFails: the store read stands outside the try block.
SnapshotFailsUncaught ==
  /\ proc = "serving"
  /\ run = "fetchingUsers"
  /\ snapshot' = "failed"
  /\ run' = "rejected"
  /\ UNCHANGED <<proc, config, runErrors, grp, scrapeVars, sendVars, storeVars, translateVars>>

\* getUsersGroupedByLanguageAndCountry rejected: caught and logged.
SnapshotFails ==
  /\ proc = "serving"
  /\ run = "fetchingUsers"
  /\ snapshot' = "failed"
  /\ run' = "resolved"
  /\ runErrors' = runErrors + 1
  /\ UNCHANGED <<proc, config, grp, scrapeVars, sendVars, storeVars, translateVars>>

\* The snapshot arrived: processUserGroup is called for every bucket, each
\* call running to its first await, and Promise.all is awaited.
StartGroups(c) ==
  [g \in 1..MaxGroups |->
     ProcessUserGroup(config, GroupCountry(g), GroupLanguage(g), BucketUsers(c, g))]

SnapshotArrives ==
  /\ proc = "serving"
  /\ run = "fetchingUsers"
  /\ snapshot' = "arrived"
  /\ \E c \in BucketSizes :
       /\ grp' = StartGroups(c)
       /\ run' = RunAfter("awaitingGroups", StartGroups(c))
       /\ runErrors' = runErrors + RunErrorsAfter("awaitingGroups", StartGroups(c))
  /\ UNCHANGED <<proc, config, scrapeVars, sendVars, storeVars, translateVars>>

\* The users the collection now holds for a country and a language.
StoredBucket(country, language) ==
  SelectSeq(ListDocuments(store, 1),
            LAMBDA user : /\ user.countryOfResidence = country
                          /\ user.language = language)

\* Mutant of GroupStep: the group reads its users from the collection again
\* whenever it resumes.
GroupStepRefreshed(g, G) ==
  /\ grp' = [grp EXCEPT ![g] =
               [G EXCEPT !.users = StoredBucket(G.country, G.language)]]
  /\ proc' = IF G.pc = "exit" THEN "exited" ELSE proc
  /\ run' = RunAfter(run, [grp EXCEPT ![g] = G])
  /\ runErrors' = runErrors + RunErrorsAfter(run, [grp EXCEPT ![g] = G])
  /\ UNCHANGED <<config, snapshot, scrapeVars, sendVars, storeVars, translateVars>>

\* Mutant of GroupStep: the translated articles are kept in one variable
\* shared by the groups, so the recipients of a group are rendered with what
\* the next group translated.
GroupStepSharedArticles(g, G) ==
  /\ grp' = [grp EXCEPT ![g] =
               [G EXCEPT !.rcp =
                  [u \in 1..Len(G.rcp) |->
                     [G.rcp[u] EXCEPT !.articles =
                        [i \in 1..Len(grp[(g % MaxGroups) + 1].tr) |->
                           grp[(g % MaxGroups) + 1].tr[i].result]]]]]
  /\ proc' = IF G.pc = "exit" THEN "exited" ELSE proc
  /\ run' = RunAfter(run, [grp EXCEPT ![g] = G])
  /\ runErrors' = runErrors + RunErrorsAfter(run, [grp EXCEPT ![g] = G])
  /\ UNCHANGED <<config, snapshot, scrapeVars, sendVars, storeVars, translateVars>>

\* Mutant of GroupStep: a group that finished its dispatch does not return
\* while the pipeline of another group is in progress.
GroupStepJoined(g, G) ==
  /\ grp' = [grp EXCEPT ![g] =
               IF /\ G.pc = "done"
                  /\ \E h \in 1..MaxGroups \ {g} :
                       grp[h].pc \in {"scraping", "translating", "dispatching"}
               THEN [G EXCEPT !.pc = "dispatching"]
               ELSE G]
  /\ proc' = IF G.pc = "exit" THEN "exited" ELSE proc
  /\ run' = RunAfter(run, [grp EXCEPT ![g] = G])
  /\ runErrors' = runErrors + RunErrorsAfter(run, [grp EXCEPT ![g] = G])
  /\ UNCHANGED <<config, snapshot, scrapeVars, sendVars, storeVars, translateVars>>

\* A macrotask left group g as G: Deno.exit ends the process, and the run
\* resumes if Promise.all settled.
GroupStep(g, G) ==
  /\ grp' = [grp EXCEPT ![g] = G]
  /\ proc' = IF G.pc = "exit" THEN "exited" ELSE proc
  /\ run' = RunAfter(run, [grp EXCEPT ![g] = G])
  /\ runErrors' = runErrors + RunErrorsAfter(run, [grp EXCEPT ![g] = G])
  /\ UNCHANGED <<config, snapshot, scrapeVars, sendVars, storeVars, translateVars>>

\* --------------------------------------------------------- group: scraping
ListingDone ==
  /\ proc = "serving"
  /\ \E g \in 1..MaxGroups :
       /\ grp[g].job.pc = "listing"
       /\ \E ok \in BOOLEAN, page \in Pages :
            GroupStep(g, ContinueScrape(config,
              [grp[g] EXCEPT !.job = AfterListing(grp[g].job, ok, page)]))

SelectionDone ==
  /\ proc = "serving"
  /\ \E g \in 1..MaxGroups :
       /\ grp[g].job.pc = "selecting"
       /\ \E ok \in BOOLEAN, reply \in GroupReplies :
            GroupStep(g, ContinueScrape(config,
              [grp[g] EXCEPT !.job = AfterSelection(grp[g].job, ok, reply)]))

ArticleDone ==
  /\ proc = "serving"
  /\ \E g \in 1..MaxGroups :
       /\ grp[g].job.pc = "fetching"
       /\ \E ok \in BOOLEAN, content \in Contents :
            GroupStep(g, ContinueScrape(config,
              [grp[g] EXCEPT !.job = AfterArticleFetch(grp[g].job, ok, content)]))

\* ------------------------------------------------------ group: translating
ContentDone ==
  /\ proc = "serving"
  /\ \E g \in 1..MaxGroups :
       \E i \in 1..Len(grp[g].tr) :
         /\ grp[g].tr[i].pc = "content"
         /\ \E ok \in BOOLEAN, reply \in ContentReplies :
              GroupStep(g, ContinueTranslate(config,
                [grp[g] EXCEPT !.tr[i] = AfterContent(grp[g].tr[i], ok, reply)]))

TitleDone ==
  /\ proc = "serving"
  /\ \E g \in 1..MaxGroups :
       \E i \in 1..Len(grp[g].tr) :
         /\ grp[g].tr[i].pc = "title"
         /\ \E ok \in BOOLEAN, reply \in TitleReplies :
              GroupStep(g, ContinueTranslate(config,
                [grp[g] EXCEPT !.tr[i] = AfterTitle(grp[g].tr[i], ok, reply)]))

\* ------------------------------------------------------ group: dispatching
RenderDone ==
  /\ proc = "serving"
  /\ \E g \in 1..MaxGroups :
       \E u \in 1..Len(grp[g].rcp) :
         /\ grp[g].rcp[u].pc = "render"
         /\ \E outcome \in RenderOutcomes :
              GroupStep(g, ContinueDispatch(
                [grp[g] EXCEPT !.rcp[u] =
                   AfterRender(grp[g].rcp[u], outcome,
                               config.email.newsletterSubject)]))

SendDone ==
  /\ proc = "serving"
  /\ \E g \in 1..MaxGroups :
       \E u \in 1..Len(grp[g].rcp) :
         /\ grp[g].rcp[u].pc = "send"
         /\ \E ok \in BOOLEAN :
              GroupStep(g, ContinueDispatch(
                [grp[g] EXCEPT !.rcp[u] = AfterSend(grp[g].rcp[u], ok)]))

Next ==
  \/ LoadConfig
  \/ LoadConfigFails
  \/ Tick
  \/ SnapshotFails
  \/ SnapshotArrives
  \/ ListingDone
  \/ SelectionDone
  \/ ArticleDone
  \/ ContentDone
  \/ TitleDone
  \/ RenderDone
  \/ SendDone

Spec == Init /\ [][Next]_vars

\* The process when every outbound call returns or fails: the event loop
\* runs the continuation of every call that settled, so a step that can be
\* taken is taken.
SpecLive == Spec /\ WF_vars(Next)

\* ------------------------------------------- stand-alone scrapeAllSources
\* The sources of the stand-alone call: the first n of a repeating list.
StandaloneSource(i) == SourcesAll[((i - 1) % Len(SourcesAll)) + 1]

\* The call after a macrotask left its scrapeSource calls as jobs.
ScrapeAllStep(jobs) ==
  /\ scr' = jobs
  /\ allPc' = ScrapeAllOutcome(jobs)
  /\ allResult' = IF ScrapeAllOutcome(jobs) = "returned"
                  THEN FilterArticles(jobs) ELSE <<>>
  /\ UNCHANGED <<orchVars, sendVars, storeVars, translateVars>>

\* scrapeAllSources(config)(sources, language): one scrapeSource per source.
ScrapeAllStart ==
  /\ allPc = "idle"
  /\ \E n \in 0..MaxSources :
       ScrapeAllStep([i \in 1..n |-> StartScrape(StandaloneSource(i))])

ScrapeListingDone ==
  /\ allPc = "pending"
  /\ \E i \in 1..Len(scr) :
       /\ scr[i].pc = "listing"
       /\ \E ok \in BOOLEAN, page \in AllPages :
            ScrapeAllStep([scr EXCEPT ![i] = AfterListing(scr[i], ok, page)])

ScrapeSelectionDone ==
  /\ allPc = "pending"
  /\ \E i \in 1..Len(scr) :
       /\ scr[i].pc = "selecting"
       /\ \E ok \in BOOLEAN, reply \in Replies :
            ScrapeAllStep([scr EXCEPT ![i] = AfterSelection(scr[i], ok, reply)])

ScrapeArticleDone ==
  /\ allPc = "pending"
  /\ \E i \in 1..Len(scr) :
       /\ scr[i].pc = "fetching"
       /\ \E ok \in BOOLEAN, content \in Contents :
            ScrapeAllStep([scr EXCEPT ![i] = AfterArticleFetch(scr[i], ok, content)])

NextScrape ==
  \/ ScrapeAllStart
  \/ ScrapeListingDone
  \/ ScrapeSelectionDone
  \/ ScrapeArticleDone

SpecScrape == Init /\ [][NextScrape]_vars

\* --------------------------------------------- run against the collection
\* The snapshot arrived from the collection: the documents are listed and
\* grouped, and processUserGroup is called for every bucket in key order.
StartGroupsOf(buckets) ==
  [g \in 1..MaxGroups |->
     IF g <= Len(buckets)
     THEN ProcessUserGroup(config, buckets[g].country, buckets[g].language,
                           buckets[g].users)
     ELSE IdleGroup]

SnapshotBuckets == FlattenGroups(GetUsersGrouped(ListDocuments(store, 1)))

SnapshotRead ==
  /\ proc = "serving"
  /\ run = "fetchingUsers"
  /\ Len(SnapshotBuckets) <= MaxGroups
  /\ snapshot' = "arrived"
  /\ grp' = StartGroupsOf(SnapshotBuckets)
  /\ run' = RunAfter("awaitingGroups", StartGroupsOf(SnapshotBuckets))
  /\ runErrors' = runErrors
                    + RunErrorsAfter("awaitingGroups", StartGroupsOf(SnapshotBuckets))
  /\ UNCHANGED <<proc, config, scrapeVars, sendVars, storeVars, translateVars>>

\* ----------------------------------------------------------- subscriber API
ApiVars ==
  <<proc, config, run, runErrors, snapshot, grp, scrapeVars, sendVars, translateVars>>

\* addNewsletterUser(user): the document is created under the address.
ApiAddUser ==
  /\ proc = "serving"
  /\ apiCalls < MaxApiCalls
  /\ \E k \in 1..MaxUsers, l \in StoreLanguages, c \in StoreCountries :
       /\ ~store[k].present
       /\ store' = [store EXCEPT ![k] = Doc(l, c)]
  /\ apiCalls' = apiCalls + 1
  /\ UNCHANGED <<ApiVars, rename, configDoc>>

\* updateNewsletterUser(email, data) without a new address: the fields named
\* in data are patched.
ApiUpdateUser ==
  /\ proc = "serving"
  /\ apiCalls < MaxApiCalls
  /\ \E k \in 1..MaxUsers :
       /\ store[k].present
       /\ \E l \in StoreLanguages \cup {store[k].language},
             c \in StoreCountries \cup {store[k].countryOfResidence} :
            /\ Doc(l, c) # store[k]
            /\ store' = [store EXCEPT ![k] = Doc(l, c)]
  /\ apiCalls' = apiCalls + 1
  /\ UNCHANGED <<ApiVars, rename, configDoc>>

\* deleteNewsletterUser(email)
ApiDeleteUser ==
  /\ proc = "serving"
  /\ apiCalls < MaxApiCalls
  /\ \E k \in 1..MaxUsers :
       /\ store[k].present
       /\ store' = [store EXCEPT ![k] = NoDoc]
  /\ apiCalls' = apiCalls + 1
  /\ UNCHANGED <<ApiVars, rename, configDoc>>

\* Mutant of ApiRenamePost: the document under the old address is deleted
\* before the merged user is posted.
ApiRenamePostAfterDelete ==
  /\ proc = "serving"
  /\ rename.pc = "post"
  /\ IF store[rename.to].present
     THEN /\ rename' = [rename EXCEPT !.pc = "failed"]
          /\ store' = [store EXCEPT ![rename.from] = NoDoc]
     ELSE /\ store' = [store EXCEPT ![rename.from] = NoDoc,
                                    ![rename.to] = rename.data]
          /\ rename' = [rename EXCEPT !.pc = "done"]
  /\ UNCHANGED <<ApiVars, apiCalls, configDoc>>

\* updateNewsletterUser(email, data) with a new address.  pc of the call:
\* "post" and "delete" while it awaits that request, "done" once it
\* returned, "failed" once it threw.  The existing document is read (a
\* missing one makes the call throw) and merged with data,
ApiRenameRead ==
  /\ proc = "serving"
  /\ apiCalls < MaxApiCalls
  /\ rename.pc \notin {"post", "delete"}
  /\ \E k, t \in 1..MaxUsers :
       /\ k # t
       /\ IF store[k].present
          THEN \E l \in StoreLanguages \cup {store[k].language} :
                 rename' = [pc |-> "post", from |-> k, to |-> t,
                            data |-> Doc(l, store[k].countryOfResidence)]
          ELSE rename' = [pc |-> "failed", from |-> k, to |-> t, data |-> NoDoc]
  /\ apiCalls' = apiCalls + 1
  /\ UNCHANGED <<ApiVars, store, configDoc>>

\* the merged user is posted under the new address (the request fails, and
\* the call with it, when that document exists),
ApiRenamePost ==
  /\ proc = "serving"
  /\ rename.pc = "post"
  /\ IF store[rename.to].present
     THEN rename' = [rename EXCEPT !.pc = "failed"] /\ store' = store
     ELSE /\ store' = [store EXCEPT ![rename.to] = rename.data]
          /\ rename' = [rename EXCEPT !.pc = "delete"]
  /\ UNCHANGED <<ApiVars, apiCalls, configDoc>>

\* and the document under the old address is deleted (or that request
\* fails, and the call with it).
ApiRenameDelete ==
  /\ proc = "serving"
  /\ rename.pc = "delete"
  /\ \E ok \in BOOLEAN :
       IF ok
       THEN /\ store' = [store EXCEPT ![rename.from] = NoDoc]
            /\ rename' = [rename EXCEPT !.pc = "done"]
       ELSE /\ store' = store
            /\ rename' = [rename EXCEPT !.pc = "failed"]
  /\ UNCHANGED <<ApiVars, apiCalls, configDoc>>

NextStore ==
  \/ LoadConfig
  \/ LoadConfigFails
  \/ Tick
  \/ SnapshotFails
  \/ SnapshotRead
  \/ ListingDone
  \/ SelectionDone
  \/ ArticleDone
  \/ ContentDone
  \/ TitleDone
  \/ RenderDone
  \/ SendDone
  \/ ApiAddUser
  \/ ApiUpdateUser
  \/ ApiDeleteUser
  \/ ApiRenameRead
  \/ ApiRenamePost
  \/ ApiRenameDelete

SpecStore == Init /\ [][NextStore]_vars

\* ------------------------------------------- later runs, /config endpoints
\* Mutant of TickLater: the run reads the configuration document again.
TickLaterReloads ==
  /\ proc = "serving"
  /\ run = "resolved"
  /\ runErrors < MaxRunErrors
  /\ run' = "fetchingUsers"
  /\ snapshot' = "none"
  /\ grp' = [g \in 1..MaxGroups |-> IdleGroup]
  /\ config' = configDoc
  /\ UNCHANGED <<proc, runErrors, scrapeVars, sendVars, storeVars, translateVars>>

\* The cron job fires again and calls the same processNewsletter(config)
\* closure, here once the earlier run resolved and none of its calls is
\* outstanding.
TickLater ==
  /\ proc = "serving"
  /\ run = "resolved"
  /\ runErrors < MaxRunErrors
  /\ \A g \in 1..MaxGroups :
       /\ grp[g].job.pc \notin {"listing", "selecting", "fetching"}
       /\ \A i \in 1..Len(grp[g].tr) : grp[g].tr[i].pc \notin {"content", "title"}
       /\ \A u \in 1..Len(grp[g].rcp) : grp[g].rcp[u].pc \notin {"render", "send"}
  /\ run' = "fetchingUsers"
  /\ snapshot' = "none"
  /\ grp' = [g \in 1..MaxGroups |-> IdleGroup]
  /\ UNCHANGED <<proc, config, runErrors, scrapeVars, sendVars, storeVars, translateVars>>

\* POST /config: postConfigDocument(req.body, "defaultConfig") stores the
\* posted document (a request the store refuses changes nothing).
ApiPostConfig ==
  /\ proc = "serving"
  /\ \E cfg \in Configs :
       /\ cfg # configDoc
       /\ configDoc' = cfg
  /\ UNCHANGED <<ApiVars, store, apiCalls, rename>>

\* PUT /config: updateConfigDocument(req.body, "defaultConfig") patches the
\* top-level fields the body names.
ApiPutConfig ==
  /\ proc = "serving"
  /\ \E cfg \in Configs :
       \E patched \in {[configDoc EXCEPT !.openAiApiKey = cfg.openAiApiKey],
                       [configDoc EXCEPT !.email = cfg.email],
                       [configDoc EXCEPT !.newsSources = cfg.newsSources]} :
         /\ patched # configDoc
         /\ configDoc' = patched
  /\ UNCHANGED <<ApiVars, store, apiCalls, rename>>

NextConfig ==
  \/ LoadConfig
  \/ LoadConfigFails
  \/ Tick
  \/ TickLater
  \/ SnapshotFails
  \/ SnapshotArrives
  \/ ListingDone
  \/ SelectionDone
  \/ ArticleDone
  \/ ContentDone
  \/ TitleDone
  \/ RenderDone
  \/ SendDone
  \/ ApiPostConfig
  \/ ApiPutConfig

SpecConfig == Init /\ [][NextConfig]_vars

\* ------------------------------------------------- stand-alone sendEmails
\* Entries of a subscribers argument: two addresses, a string without "@",
\* a value that is not a string.
SubscriberEntries ==
  { Str(UserEmail(1)), Str(UserEmail(2)), Str(<<"n">>), Num(7) }

SubscriberLists ==
  UNION { [1..n -> SubscriberEntries] : n \in 0..MaxUsers }

\* Articles arguments: none, a translated article, and a list whose second
\* article has a title that is not a string.
GoodArticle == [title |-> Str(<<"T">>), content |-> <<"c">>, link |-> Str(UrlPA)]
BadArticle == [title |-> Num(2), content |-> <<"c">>, link |-> Str(UrlPA)]
ArticleLists == { <<>>, <<GoodArticle>>, <<GoodArticle, BadArticle>> }

\* sendEmails({ subscribers, articles, mailConfigPack, unsubscribeLink })
SendEmailsStart ==
  /\ mail.sendPc = "none"
  /\ \E subscribers \in SubscriberLists, articles \in ArticleLists :
       mail' = ContinueSendEmails(
                 StartSendEmails(
                   [IdleMail EXCEPT !.subscribers = subscribers,
                                    !.articles = articles,
                                    !.unsubscribeLink = UnsubscribeBaseLink],
                   subscribers, articles, UnsubscribeBaseLink))
  /\ UNCHANGED <<orchVars, scrapeVars, storeVars, translateVars>>

MailRenderDone ==
  /\ \E u \in 1..Len(mail.rcp) :
       /\ mail.rcp[u].pc = "render"
       /\ \E outcome \in RenderOutcomes :
            mail' = ContinueSendEmails(
                      [mail EXCEPT !.rcp[u] =
                         AfterRender(mail.rcp[u], outcome,
                                     EmailComplete.newsletterSubject)])
  /\ UNCHANGED <<orchVars, scrapeVars, storeVars, translateVars>>

MailSendDone ==
  /\ \E u \in 1..Len(mail.rcp) :
       /\ mail.rcp[u].pc = "send"
       /\ \E ok \in BOOLEAN :
            mail' = ContinueSendEmails(
                      [mail EXCEPT !.rcp[u] = AfterSend(mail.rcp[u], ok)])
  /\ UNCHANGED <<orchVars, scrapeVars, storeVars, translateVars>>

NextSend ==
  \/ SendEmailsStart
  \/ MailRenderDone
  \/ MailSendDone

SpecSend == Init /\ [][NextSend]_vars

\* ---------------------------------------------- stand-alone translateArticle
\* Articles handed to translateArticle: as scrapeSource builds them.
ArticleInputs ==
  { [title |-> Str(<<"A">>), content |-> <<"b">>, link |-> Str(<<"/", "a">>)],
    [title |-> Str(<<"B">>), content |-> <<"b">>, link |-> Str(UrlPA \o <<"b">>)],
    [title |-> Num(2), content |-> <<"b">>, link |-> Num(1)] }

\* Pieces a content reply is made of.
ReplyPieces == { <<Backtick>>, Fence, FenceHtml, <<"x">> }

FencedExample == FenceHtml \o <<"<", "p", ">", "x", "<", "/", "p", ">">> \o Fence

\* Content replies: up to three pieces in a row, and a fenced document.
FencedReplies ==
  { <<>>, FencedExample }
    \cup ReplyPieces
    \cup { a \o b : a \in ReplyPieces, b \in ReplyPieces }
    \cup { a \o b \o c : a \in ReplyPieces, b \in ReplyPieces, c \in ReplyPieces }

\* Title replies: a sentence, a fenced sentence, nothing.
PlainTitleReplies == { <<"T">>, Fence \o <<"T">> \o Fence, <<>> }

\* translateArticle(config)(article, language)
TranslateStart ==
  /\ tx.task.pc = "idle"
  /\ \E key \in {<<>>, ApiKey}, article \in ArticleInputs :
       tx' = [IdleTx EXCEPT
                !.key = key, !.input = article,
                !.task = StartTranslate([openAiApiKey |-> key], article,
                                        <<"e", "s">>)]
  /\ UNCHANGED <<orchVars, scrapeVars, sendVars, storeVars>>

TranslateContentDone ==
  /\ tx.task.pc = "content"
  /\ \E ok \in BOOLEAN, reply \in FencedReplies :
       tx' = [tx EXCEPT !.contentReply = IF ok THEN reply ELSE <<>>,
                        !.task = AfterContent(tx.task, ok, reply)]
  /\ UNCHANGED <<orchVars, scrapeVars, sendVars, storeVars>>

TranslateTitleDone ==
  /\ tx.task.pc = "title"
  /\ \E ok \in BOOLEAN, reply \in PlainTitleReplies :
       tx' = [tx EXCEPT !.titleReply = IF ok THEN reply ELSE <<>>,
                        !.task = AfterTitle(tx.task, ok, reply)]
  /\ UNCHANGED <<orchVars, scrapeVars, sendVars, storeVars>>

NextTranslate ==
  \/ TranslateStart
  \/ TranslateContentDone
  \/ TranslateTitleDone

SpecTranslate == Init /\ [][NextTranslate]_vars

\* --------------------------------------------- stand-alone translateArticles
\* Batches handed to translateArticles: one to MaxArticles articles.
ArticleBatches ==
  UNION { [1..n -> ArticleInputs] : n \in 1..MaxArticles }

\* processUserGroup from its translateArticles call on, for one subscriber
\* and a batch of articles: translateArticles(config)(articles, language),
\* then the dispatch of what it returned.
BatchStart ==
  /\ proc = "serving"
  /\ run = "idle"
  /\ grp[1].pc = "none"
  /\ \E articles \in ArticleBatches :
       GroupStep(1, ContinueTranslate(config,
         [IdleGroup EXCEPT
            !.pc = "translating",
            !.country = GroupCountry(1),
            !.language = GroupLanguage(1),
            !.users = << [email |-> UserEmail(1)] >>,
            !.articles = articles,
            !.tr = [i \in 1..Len(articles) |->
                      StartTranslate(config, articles[i], GroupLanguage(1))]]))

NextBatch ==
  \/ LoadConfig
  \/ LoadConfigFails
  \/ BatchStart
  \/ ContentDone
  \/ TitleDone
  \/ RenderDone
  \/ SendDone

SpecBatch == Init /\ [][NextBatch]_vars

\* ================================================================== claims
\* Outbound calls of one group's pipeline.
PageFetches(G) == G.job.pageFetches
SelectionCalls(G) == G.job.llmCalls
TranslationCallsIssued(G) == \E i \in 1..Len(G.tr) : G.tr[i].llmCalls > 0
SendsIssued(G) == \E u \in 1..Len(G.rcp) : G.rcp[u].sends > 0

NoOutboundCalls(G) ==
  /\ PageFetches(G) = 0
  /\ SelectionCalls(G) = 0
  /\ ~TranslationCallsIssued(G)
  /\ ~SendsIssued(G)

\* An outbound call of the group is still outstanding.
PendingCalls(G) ==
  \/ G.job.pc \in {"listing", "selecting", "fetching"}
  \/ \E i \in 1..Len(G.tr) : G.tr[i].pc \in {"content", "title"}
  \/ \E u \in 1..Len(G.rcp) : G.rcp[u].pc \in {"render", "send"}

\* processUserGroup has not settled.
InProgress(G) == G.pc \in {"scraping", "translating", "dispatching"}

\* The process has come to rest: it ended, or the run resolved and no call
\* of any group is outstanding.
AtRest ==
  \/ proc \in {"exited", "crashed"}
  \/ run = "resolved" /\ \A g \in 1..MaxGroups : ~PendingCalls(grp[g])

\* Nothing failed inside the pipeline of the group so far.
NothingFailed(G) ==
  /\ G.pc \notin {"rejected", "failed", "exit"}
  /\ G.job.errors = 0
  /\ \A i \in 1..Len(G.tr) : G.tr[i].pc # "threw"
  /\ \A u \in 1..Len(G.rcp) : G.rcp[u].pc \notin {"renderThrew", "invalid"}

\* A transport send was attempted for every subscriber of the group.
SendAttemptedForAll(G) ==
  /\ Len(G.rcp) = Len(G.users)
  /\ \A u \in 1..Len(G.rcp) : G.rcp[u].sends > 0

\* C1 (as claimed): a failure inside one group's pipeline neither makes the
\* run throw nor costs another group its mail: once the process is at rest,
\* every group with a matching source, a successful scrape and no failure of
\* its own has had a send attempted for each of its subscribers.
C1_GroupFailureIsolation ==
  /\ run # "rejected"
  /\ AtRest =>
       \A g \in 1..MaxGroups :
         (grp[g].source # 0 /\ grp[g].articles # <<>> /\ NothingFailed(grp[g]))
           => SendAttemptedForAll(grp[g])

\* C2 (as claimed): sendEmails never throws, and once all of its recipients
\* settled, a transport send was attempted for every recipient whose own
\* email did not fail before the transport.
C2_RecipientFailureIsolation ==
  \A g \in 1..MaxGroups :
    /\ grp[g].sendPc # "threw"
    /\ (grp[g].rcp # <<>> /\ ~PendingCalls(grp[g])) =>
         \A u \in 1..Len(grp[g].rcp) :
           grp[g].rcp[u].pc \notin {"renderThrew", "invalid"}
             => grp[g].rcp[u].sends > 0

\* C3 (as claimed): whenever the run has resolved, no group pipeline of the
\* run is still in progress.
C3_RunResolvesAfterGroupsSettle ==
  run = "resolved" => \A g \in 1..MaxGroups : ~InProgress(grp[g])

\* C4: within one group no translation call is issued before the group's
\* scrape has completed, and no send is issued (nor any recipient started)
\* before every translation of the group has completed.
C4_StagesSequential ==
  \A g \in 1..MaxGroups :
    /\ TranslationCallsIssued(grp[g]) => grp[g].job.pc = "returned"
    /\ (grp[g].rcp # <<>> \/ SendsIssued(grp[g])) =>
         /\ grp[g].tr # <<>>
         /\ \A i \in 1..Len(grp[g].tr) : grp[g].tr[i].pc = "returned"

\* C4 witness: a send was issued in a group whose translation issued calls.
C4_Witness ==
  \E g \in 1..MaxGroups : SendsIssued(grp[g]) /\ TranslationCallsIssued(grp[g])

\* C5: when the store read of the run failed, the run is resolved (not
\* rejected), the failure was logged, and no group issued a page fetch, an
\* LLM call or a send.
C5_SnapshotFailureAbortsRun ==
  snapshot = "failed" =>
    /\ run = "resolved"
    /\ runErrors = 1
    /\ \A g \in 1..MaxGroups : grp[g].pc = "none" /\ NoOutboundCalls(grp[g])

\* C5 witness: the store read failed in a serving process.
C5_Witness == snapshot = "failed" /\ proc = "serving"

\* No API key, or email settings lacking host, port, auth.user or auth.pass.
BadConfig(cfg) == cfg.openAiApiKey = <<>> \/ ~MailConfigComplete(cfg.email)

\* C6 (as claimed): with a missing key or incomplete email settings no
\* listing fetch, LLM call or email send is ever issued.
C6_BadConfigAbortsBeforeRun ==
  (proc # "loading" /\ BadConfig(config)) =>
    \A g \in 1..MaxGroups : NoOutboundCalls(grp[g])

\* The articles of the sources whose scrape produced one, in source order.
SucceededJobs == { i \in 1..Len(scr) : scr[i].hasArticle }

IsIntegerLiteral(s) ==
  /\ Len(s) > 0
  /\ \A i \in 1..Len(s) : IsDigit(s[i]) \/ (i = 1 /\ s[i] = "-" /\ Len(s) > 1)

\* The index segment names an element of titles: a non-negative integer
\* below titles.length.
IndexInRange(index, titles) ==
  /\ IsIntegerLiteral(index)
  /\ index[1] # "-"
  /\ KeyToNumber(index) < Len(titles)

\* C8 (as claimed): a scrape whose selection reply has an index segment that
\* is non-numeric or out of range never throws and ends absent.
C8_BadIndexYieldsAbsent ==
  [][\A i \in 1..Len(scr) :
       (/\ scr[i].pc = "fetching"
        /\ ~IndexInRange(scr[i].index, scr[i].titles)
        /\ i \in DOMAIN scr'
        /\ scr'[i].pc # "fetching")
         => (scr'[i].pc = "returned" /\ ~scr'[i].hasArticle)]_vars

\* Two country codes are equal ignoring letter case.
EqualIgnoringCase(a, b) ==
  /\ Len(a) = Len(b)
  /\ \A i \in 1..Len(a) :
       \/ a[i] = b[i]
       \/ \E k \in 1..Len(Lower) :
            {a[i], b[i]} = {Lower[k], Upper[k]}

\* The configured sources whose country equals c ignoring case.
MatchingSources(cfg, c) ==
  { i \in 1..Len(cfg.newsSources) :
      /\ "country" \in DOMAIN cfg.newsSources[i]
      /\ EqualIgnoringCase(cfg.newsSources[i].country, c) }

\* C9 (as claimed): a non-empty group is processed with a source whose
\* country equals its own ignoring case when there is one, and is skipped
\* without throwing and without any outbound call when there is none.
C9_SourceMatching ==
  \A g \in 1..MaxGroups :
    (grp[g].pc # "none" /\ grp[g].users # <<>>) =>
      /\ grp[g].source # 0 => grp[g].source \in MatchingSources(config, grp[g].country)
      /\ MatchingSources(config, grp[g].country) # {} => grp[g].source # 0
      /\ MatchingSources(config, grp[g].country) = {} =>
           (grp[g].pc = "skippedNoSource" /\ NoOutboundCalls(grp[g]))

\* C10: a bucket with zero users is skipped and never issues a page fetch,
\* an LLM call or a send.
C10_EmptyGroupSkipped ==
  \A g \in 1..MaxGroups :
    (grp[g].pc # "none" /\ grp[g].users = <<>>) =>
      (grp[g].pc = "skippedEmpty" /\ NoOutboundCalls(grp[g]))

\* C10 witness: an empty bucket was skipped while another bucket of the same
\* snapshot had its mail sent.
C10_Witness ==
  \E g, h \in 1..MaxGroups :
    /\ grp[g].pc = "skippedEmpty" /\ grp[g].users = <<>>
    /\ SendsIssued(grp[h])

\* The scrape of the group settled without an article.
ScrapedNothing(G) == G.job.pc = "returned" /\ ~G.job.hasArticle

\* C11: a group whose scrape yielded zero articles is skipped: it starts no
\* translation, issues no translation LLM call, starts no recipient and
\* issues no send; the skip is a normal return of the group (nothing logged
\* as a failure, the run not rejected), and the step that skips the group
\* leaves every other group as it was.
C11_ZeroArticlesSkipped ==
  [][\A g \in 1..MaxGroups :
       ScrapedNothing(grp'[g]) =>
         /\ grp'[g].pc = "skippedNoArticles"
         /\ grp'[g].tr = <<>> /\ ~TranslationCallsIssued(grp'[g])
         /\ grp'[g].rcp = <<>> /\ ~SendsIssued(grp'[g])
         /\ grp'[g].errors = 0
         /\ ~ScrapedNothing(grp[g]) =>
              /\ run' # "rejected" /\ proc' = proc
              /\ \A h \in 1..MaxGroups \ {g} : grp'[h] = grp[h]]_vars

\* C11 witness: one group was skipped for want of articles and another
\* group of the same run has had a send issued.
C11_Witness ==
  \E g, h \in 1..MaxGroups :
    /\ grp[g].pc = "skippedNoArticles" /\ ScrapedNothing(grp[g])
    /\ SendsIssued(grp[h])

\* C12 (as claimed): once sendEmails has handed control back to its caller,
\* no send it started is still in flight, also when the email of some
\* recipient failed.
C12_ReturnsAfterSendsSettle ==
  mail.sendPc \in {"returned", "threw"} =>
    \A u \in 1..Len(mail.rcp) : mail.rcp[u].pc # "send"

\* The arguments of the stand-alone call fail the input checks of sendEmails.
InvalidSendInput == ~ValidSubscribers(mail.subscribers) \/ ~ValidArticles(mail.articles)

\* C13: a sendEmails call whose subscribers or articles argument is invalid
\* returns without throwing, starts no recipient and sends nothing, not even
\* to the valid entries.
C13_InvalidInputFailsClosed ==
  (mail.sendPc # "none" /\ InvalidSendInput) =>
    /\ mail.sendPc = "returned"
    /\ mail.rcp = <<>>

\* C13 witness: the call was made with a list holding a valid address and
\* an invalid entry, and returned.
C13_Witness ==
  /\ mail.sendPc = "returned"
  /\ ~ValidSubscribers(mail.subscribers)
  /\ \E i \in 1..Len(mail.subscribers) : ValidSubscribers(<<mail.subscribers[i]>>)

\* The user is one of the users handed to the group.
UserInBucket(user, G) == \E i \in 1..Len(G.users) : G.users[i] = user

RECURSIVE CountUsers(_, _)
\* Users in the buckets 1..n.
CountUsers(groups, n) ==
  IF n = 0 THEN 0 ELSE Len(groups[n].users) + CountUsers(groups, n - 1)

\* C14: when the snapshot is read, every user the collection returned is in
\* exactly one bucket, that bucket carries the user's own countryOfResidence
\* and language, and the buckets together hold as many users as were
\* returned.
C14_GroupingInvariant ==
  [][(snapshot # "arrived" /\ snapshot' = "arrived") =>
       /\ \A i \in 1..Len(ListDocuments(store, 1)) :
            /\ Cardinality({ g \in 1..MaxGroups :
                               UserInBucket(ListDocuments(store, 1)[i], grp'[g]) }) = 1
            /\ \A g \in 1..MaxGroups :
                 UserInBucket(ListDocuments(store, 1)[i], grp'[g]) =>
                   /\ grp'[g].country = ListDocuments(store, 1)[i].countryOfResidence
                   /\ grp'[g].language = ListDocuments(store, 1)[i].language
       /\ CountUsers(grp', MaxGroups) = Len(ListDocuments(store, 1))]_vars

\* C14 witness: a snapshot was grouped into two buckets of one country that
\* differ in language.
C14_Witness ==
  /\ snapshot = "arrived"
  /\ \E g, h \in 1..MaxGroups :
       /\ grp[g].users # <<>> /\ grp[h].users # <<>>
       /\ grp[g].country = grp[h].country
       /\ grp[g].language # grp[h].language

\* The document of the address is no longer in the bucket (country,
\* language) of the collection.
LeftBucket(email, country, language) ==
  ~\E i \in 1..Len(StoredBucket(country, language)) :
      StoredBucket(country, language)[i].email = email

\* C15: once a run has its snapshot, no step changes the key or the users of
\* any of its groups, whatever the API does to the collection meanwhile, and
\* the recipients of a group are the addresses of its snapshot users.
C15_SnapshotStable ==
  [][\A g \in 1..MaxGroups :
       /\ grp[g].pc # "none" =>
            /\ grp'[g].users = grp[g].users
            /\ grp'[g].country = grp[g].country
            /\ grp'[g].language = grp[g].language
       /\ grp'[g].rcp # <<>> =>
            /\ Len(grp'[g].rcp) = Len(grp'[g].users)
            /\ \A u \in 1..Len(grp'[g].rcp) :
                 grp'[g].rcp[u].to = grp'[g].users[u].email]_vars

\* C15 witness: a send was issued to an address of the snapshot whose
\* document has meanwhile left that bucket of the collection.
C15_Witness ==
  \E g \in 1..MaxGroups :
    \E u \in 1..Len(grp[g].rcp) :
      /\ grp[g].rcp[u].sends > 0
      /\ LeftBucket(grp[g].rcp[u].to, grp[g].country, grp[g].language)

\* C16: a translateArticle call made without an API key throws, and it has
\* issued no translation LLM call.
C16_KeyCheckedBeforeCalls ==
  (tx.task.pc # "idle" /\ tx.key = <<>>) =>
    /\ tx.task.pc = "threw"
    /\ tx.task.llmCalls = 0

\* C16 witness: the call was made without a key.
C16_Witness == tx.task.pc = "threw" /\ tx.key = <<>> /\ tx.input # NoArticle

\* C17: a translateArticle call that returned gives an Article with the link
\* of the input article, the title reply as its title and the cleaned content
\* reply as its content, and the input article is as it was handed in.
C17_TranslatedArticle ==
  tx.task.pc = "returned" =>
    /\ tx.task.result.link = tx.input.link
    /\ tx.task.result.title = Str(tx.titleReply)
    /\ tx.task.result.content = StripFences(tx.contentReply)
    /\ tx.task.article = tx.input

\* C17 witness: a translation returned whose title and content both differ
\* from those of the input article.
C17_Witness ==
  /\ tx.task.pc = "returned"
  /\ tx.task.result.title # tx.input.title
  /\ tx.task.result.content # tx.input.content

\* The string holds a fence.
HasFence(s) == \E i \in 1..Len(s) : HasPrefix(SubSeq(s, i, Len(s)), Fence)

\* C18: the content of a returned translation holds no fence; cleaning it a
\* second time changes nothing; a content reply without a fence comes back
\* unchanged; and the fenced example comes back as the document inside.
C18_FenceCleanup ==
  tx.task.pc = "returned" =>
    /\ ~HasFence(tx.task.result.content)
    /\ StripFences(tx.task.result.content) = tx.task.result.content
    /\ ~HasFence(tx.contentReply) => tx.task.result.content = tx.contentReply
    /\ tx.contentReply = FencedExample =>
         tx.task.result.content = <<"<", "p", ">", "x", "<", "/", "p", ">">>

\* C18 witness: the fenced example was cleaned.
C18_Witness == tx.task.pc = "returned" /\ tx.contentReply = FencedExample

\* C19: a scrapeSource call whose article page arrived never throws; it
\* returns an Article only if the selected title, the content and the
\* resolved link are all non-empty, and that Article carries them; and
\* whatever content the page gave, the call returns an Article exactly when
\* all three are non-empty and otherwise returns absent with nothing caught.
C19_ArticleOnlyIfComplete ==
  [][\A i \in 1..Len(scr) :
       (scr[i].pc = "fetching" /\ i \in DOMAIN scr' /\ scr'[i].pc # "fetching") =>
         /\ scr'[i].pc = "returned"
         /\ scr'[i].hasArticle =>
              /\ Truthy(scr[i].title) /\ Truthy(scr[i].composedLink)
              /\ scr'[i].article.content # <<>>
              /\ scr'[i].article.title = scr[i].title
              /\ scr'[i].article.link = scr[i].link
         /\ \A content \in Contents :
              scr'[i] = AfterArticleFetch(scr[i], TRUE, content) =>
                /\ scr'[i].hasArticle <=>
                     (/\ Truthy(scr[i].title) /\ content # <<>>
                      /\ Truthy(scr[i].composedLink))
                /\ scr'[i].errors = scr[i].errors]_vars

\* C19 witness: a call fetched both pages, caught nothing and returned absent.
C19_Witness ==
  \E i \in 1..Len(scr) :
    /\ scr[i].pc = "returned" /\ ~scr[i].hasArticle
    /\ scr[i].errors = 0 /\ scr[i].pageFetches = 2

\* C20: when the index segment of the selection reply is the numeral of an
\* integer n with 0 <= n < titles.length, the selected title is titles[n]
\* and the selected link is links[n], or "" when links has no element n.
C20_SelectorIndexing ==
  \A i \in 1..Len(scr) :
    scr[i].pc = "fetching" =>
      \A n \in 0..(Len(scr[i].titles) - 1) :
        scr[i].index = NumberToString(n) =>
          /\ scr[i].title = Str(scr[i].titles[n + 1])
          /\ scr[i].link = IF n < Len(scr[i].links)
                            THEN Str(scr[i].links[n + 1]) ELSE Str(<<>>)

\* C20 witness: index 1 was selected on a page with two titles and one link.
C20_Witness ==
  \E i \in 1..Len(scr) :
    /\ scr[i].pc = "fetching"
    /\ scr[i].index = <<"1">>
    /\ Len(scr[i].titles) = 2 /\ Len(scr[i].links) = 1
    /\ scr[i].title = Str(scr[i].titles[2])
    /\ scr[i].link = Str(<<>>)

\* C21 (as claimed): the selector returns a title/link pair only when the
\* index segment of the reply is an integer within [0, titles.length); with
\* any other segment it fails, so scrapeSource never reaches the article
\* fetch with such an index.
C21_BadIndexFails ==
  \A i \in 1..Len(scr) :
    scr[i].pc = "fetching" => IndexInRange(scr[i].index, scr[i].titles)

\* The articles translateArticles returned to the group.
TranslatedArticles(G) == [i \in 1..Len(G.tr) |-> G.tr[i].result]

\* C22: every recipient of a dispatch is a user of the group, its email is
\* rendered with the unsubscribe link <unsubscribeBaseLink>/<its own
\* address>, which is the link of no other recipient, and with the full list
\* of the group's translated articles, the same for all recipients.
C22_PersonalUnsubscribeLink ==
  \A g \in 1..MaxGroups :
    \A u \in 1..Len(grp[g].rcp) :
      /\ grp[g].rcp[u].to = grp[g].users[u].email
      /\ grp[g].rcp[u].unsubscribeLink
           = UnsubscribeBaseLink \o <<"/">> \o grp[g].rcp[u].to
      /\ grp[g].rcp[u].articles = TranslatedArticles(grp[g])
      /\ Len(grp[g].rcp[u].articles) = Len(grp[g].articles)
      /\ \A v \in 1..Len(grp[g].rcp) :
           /\ grp[g].rcp[v].articles = grp[g].rcp[u].articles
           /\ v # u =>
                /\ grp[g].rcp[v].to # grp[g].rcp[u].to
                /\ grp[g].rcp[v].unsubscribeLink # grp[g].rcp[u].unsubscribeLink

\* C22 witness: one dispatch has handed the emails of two recipients to the
\* transport.
C22_Witness ==
  \E g \in 1..MaxGroups :
    /\ Len(grp[g].rcp) = 2
    /\ \A u \in 1..Len(grp[g].rcp) : grp[g].rcp[u].sends > 0

\* C23: in a run every group issues at most one listing-page fetch, one
\* selection LLM call and one article-page fetch; every article at most one
\* content-translation and one title-translation call; every recipient at
\* most one transport send, also after a call failed.  A selection that
\* succeeded has issued exactly one page fetch and one LLM call, the second
\* page fetch being the article fetch that follows it.
C23_NothingRetried ==
  \A g \in 1..MaxGroups :
    /\ PageFetches(grp[g]) <= 2
    /\ SelectionCalls(grp[g]) <= 1
    /\ grp[g].job.pc = "listing" =>
         (PageFetches(grp[g]) = 1 /\ SelectionCalls(grp[g]) = 0)
    /\ grp[g].job.pc = "selecting" =>
         (PageFetches(grp[g]) = 1 /\ SelectionCalls(grp[g]) = 1)
    /\ grp[g].job.pc = "fetching" =>
         (PageFetches(grp[g]) = 2 /\ SelectionCalls(grp[g]) = 1)
    /\ Len(grp[g].tr) = Len(grp[g].articles)
    /\ \A i \in 1..Len(grp[g].tr) :
         /\ grp[g].tr[i].llmCalls <= 2
         /\ grp[g].tr[i].pc = "content" => grp[g].tr[i].llmCalls = 1
         /\ grp[g].tr[i].pc = "title" => grp[g].tr[i].llmCalls = 2
    /\ Len(grp[g].rcp) <= Len(grp[g].users)
    /\ \A u \in 1..Len(grp[g].rcp) : grp[g].rcp[u].sends <= 1

\* C23 witness: the process is at rest after a listing fetch of one group
\* and a transport send failed in the run.
C23_Witness ==
  /\ AtRest
  /\ \E g \in 1..MaxGroups : grp[g].job.errors > 0 /\ PageFetches(grp[g]) = 1
  /\ \E g \in 1..MaxGroups :
       \E u \in 1..Len(grp[g].rcp) : grp[g].rcp[u].pc = "sendFailed"

\* The address is that of a user handed to the group.
AddressInGroup(email, G) == \E k \in 1..Len(G.users) : G.users[k].email = email

\* C24: in every interleaving of the group pipelines, a group scrapes the
\* source matched to its own country, translates what that scrape returned
\* into its own language, renders every email with exactly those translated
\* articles, and addresses it to a user of the group who is a user of no
\* other group.
C24_NoCrossGroupMixing ==
  \A g \in 1..MaxGroups :
    /\ grp[g].source # 0 =>
         /\ grp[g].source \in MatchingSources(config, grp[g].country)
         /\ grp[g].job.url = config.newsSources[grp[g].source].url
    /\ grp[g].articles # <<>> => grp[g].articles = FilterArticles(<<grp[g].job>>)
    /\ Len(grp[g].tr) = Len(grp[g].articles)
    /\ \A i \in 1..Len(grp[g].tr) :
         /\ grp[g].tr[i].article = grp[g].articles[i]
         /\ grp[g].tr[i].language = grp[g].language
    /\ \A u \in 1..Len(grp[g].rcp) :
         /\ grp[g].rcp[u].articles = TranslatedArticles(grp[g])
         /\ AddressInGroup(grp[g].rcp[u].to, grp[g])
         /\ \A h \in 1..MaxGroups \ {g} :
              /\ ~AddressInGroup(grp[g].rcp[u].to, grp[h])
              /\ <<grp[h].country, grp[h].language>>
                   # <<grp[g].country, grp[g].language>>

\* C24 witness: two groups of one run that differ in language both have a
\* send in flight at the same time.
C24_Witness ==
  \E g, h \in 1..MaxGroups :
    /\ grp[g].language # grp[h].language
    /\ \E u \in 1..Len(grp[g].rcp) : grp[g].rcp[u].pc = "send"
    /\ \E v \in 1..Len(grp[h].rcp) : grp[h].rcp[v].pc = "send"

\* Every outbound call of group g returns: the group is never left for ever
\* with a call outstanding and no completion of one of its calls.
CallsOfGroupReturn(g) ==
  \/ []<>(~PendingCalls(grp[g]))
  \/ []<><<grp'[g] # grp[g]>>_vars

\* Recipient u of group g awaits its render or its send.
RecipientPending(g, u) ==
  u <= Len(grp[g].rcp) /\ grp[g].rcp[u].pc \in {"render", "send"}

\* Every outbound call of recipient u of group g returns.
CallsOfRecipientReturn(g, u) ==
  \/ []<>(~RecipientPending(g, u))
  \/ []<><<u <= Len(grp[g].rcp) /\ grp'[g].rcp[u] # grp[g].rcp[u]>>_vars

\* The email of the recipient was handed to the transport, or failed on its
\* own before that.
RecipientAttempted(g, u) ==
  /\ u <= Len(grp[g].rcp)
  /\ \/ grp[g].rcp[u].sends > 0
     \/ grp[g].rcp[u].pc \in {"renderThrew", "invalid"}

\* C25: whatever calls of the other groups and recipients never return, a
\* group whose own calls all return leaves its pipeline (processUserGroup
\* settles), and a recipient of a dispatch whose own calls all return gets
\* its send attempt unless its own email failed before the transport.
C25_HangAffectsOnlyItsTask ==
  /\ \A g \in 1..MaxGroups :
       CallsOfGroupReturn(g) => (InProgress(grp[g]) ~> ~InProgress(grp[g]))
  /\ \A g \in 1..MaxGroups : \A u \in 1..MaxUsers :
       CallsOfRecipientReturn(g, u) =>
         ((u <= Len(grp[g].rcp)) ~> RecipientAttempted(g, u))

\* C25 witness: one group has finished its dispatch with a send while the
\* listing fetch of another group is still outstanding.
C25_Witness ==
  \E g, h \in 1..MaxGroups :
    /\ grp[g].pc = "done" /\ SendsIssued(grp[g])
    /\ grp[h].pc = "scraping" /\ grp[h].job.pc = "listing"

RECURSIVE TransportsCreated(_)
\* nodemailer.createTransport calls of the groups 1..n of the run.
TransportsCreated(n) ==
  IF n = 0 THEN 0 ELSE grp[n].transports + TransportsCreated(n - 1)

\* C26 (as claimed): at most one MailConfigPack, and so one transport, is
\* created in a run, however many groups dispatch.
C26_OneMailConfigPackPerRun == TransportsCreated(MaxGroups) <= 1

\* C27: the configuration object is read from the store when the process
\* starts and is never assigned again, neither by the pipeline nor by a
\* document posted or put while the server runs; and every run, a later one
\* too, takes its source, its API key and its mail settings from that object.
C27_ConfigurationImmutable ==
  [][/\ proc # "loading" => config' = config
     /\ (proc = "loading" /\ proc' = "serving") => config' = configDoc
     /\ \A g \in 1..MaxGroups :
          /\ (grp[g].source = 0 /\ grp'[g].source # 0) =>
               /\ FindSource(config.newsSources, grp'[g].country)
                    = [kind |-> "found", index |-> grp'[g].source]
               /\ grp'[g].job.url = config.newsSources[grp'[g].source].url
          /\ (grp[g].tr = <<>> /\ grp'[g].tr # <<>>) =>
               \A i \in 1..Len(grp'[g].tr) :
                 grp'[g].tr[i].pc = "threw" <=> config.openAiApiKey = <<>>
          /\ (grp[g].pc # "exit" /\ grp'[g].pc = "exit") =>
               ~MailConfigComplete(config.email)
          /\ grp'[g].transports > grp[g].transports =>
               MailConfigComplete(config.email)]_vars

\* C27 witness: after a run that ended in an error, a later run fetches the
\* listing of the source the loaded configuration gives for the country of a
\* group, while the stored document has been replaced by one that gives no
\* source for that country.
C27_Witness ==
  /\ runErrors > 0
  /\ run = "awaitingGroups"
  /\ \E g \in 1..MaxGroups :
       /\ grp[g].job.pc = "listing"
       /\ grp[g].job.url = config.newsSources[grp[g].source].url
       /\ FindSource(configDoc.newsSources, grp[g].country).kind # "found"

\* C28 (as claimed): when every outbound call eventually returns or fails,
\* every run that started eventually resolves.
C28_RunTerminates == (run = "fetchingUsers") ~> (run = "resolved")

\* C29: translateArticles hands its caller either one translated article
\* per input article, in input order (each with the link of its input), or
\* nothing: as soon as one translation of the batch failed the call throws,
\* the group fails, and no recipient is started and no email sent for it,
\* whatever the other translations of the batch return.
C29_TranslateAllOrNothing ==
  \A g \in 1..MaxGroups :
    /\ (grp[g].sendPc # "none" \/ grp[g].rcp # <<>> \/ grp[g].transports > 0) =>
         /\ Len(grp[g].tr) = Len(grp[g].articles)
         /\ \A i \in 1..Len(grp[g].tr) :
              /\ grp[g].tr[i].pc = "returned"
              /\ grp[g].tr[i].article = grp[g].articles[i]
              /\ grp[g].tr[i].result.link = grp[g].articles[i].link
         /\ \A u \in 1..Len(grp[g].rcp) :
              grp[g].rcp[u].articles = TranslatedArticles(grp[g])
    /\ (\E i \in 1..Len(grp[g].tr) : grp[g].tr[i].pc = "threw") =>
         /\ grp[g].pc = "failed"
         /\ grp[g].sendPc = "none"
         /\ grp[g].rcp = <<>>
         /\ grp[g].transports = 0

\* C29 witness: in a batch of two articles one translation failed and the
\* other returned, and the group has failed.
C29_Witness ==
  \E g \in 1..MaxGroups :
    /\ Len(grp[g].tr) = 2
    /\ \E i, j \in 1..Len(grp[g].tr) :
         grp[g].tr[i].pc = "threw" /\ grp[g].tr[j].pc = "returned"
    /\ grp[g].pc = "failed"

\* C30: a step of an updateNewsletterUser call that changes the address
\* does one of four things.  The read goes on to the creation only when the
\* old document exists, with the old fields overridden by the update, and
\* fails otherwise.  A creation that fails ends the call as failed.  A
\* creation that succeeds stores the merged user under the new address.
\* Only after that is the old document deleted.  Whenever the call fails,
\* and at every step before the deletion, the collection keeps every
\* document it had.
C30_RenameCreatesBeforeDelete ==
  [][rename' # rename =>
       /\ rename.pc \notin {"post", "delete"} =>
            /\ store' = store
            /\ rename'.pc = (IF store[rename'.from].present
                             THEN "post" ELSE "failed")
            /\ rename'.pc = "post" =>
                 /\ rename'.data.present
                 /\ rename'.data.countryOfResidence
                      = store[rename'.from].countryOfResidence
       /\ rename.pc = "post" =>
            /\ rename'.pc \in {"delete", "failed"}
            /\ rename'.pc = "failed" => store' = store
            /\ rename'.pc = "delete" =>
                 /\ ~store[rename.to].present
                 /\ store' = [store EXCEPT ![rename.to] = rename.data]
       /\ rename.pc = "delete" =>
            /\ rename'.pc \in {"done", "failed"}
            /\ rename'.pc = "failed" => store' = store
            /\ rename'.pc = "done" =>
                 store' = [store EXCEPT ![rename.from] = NoDoc]
       /\ \A k \in 1..MaxUsers :
            (store[k].present /\ ~store'[k].present) =>
              (rename.pc = "delete" /\ rename'.pc = "done" /\ k = rename.from)]_vars

\* C30 witness: a rename failed at the creation, the new address being
\* taken, and the subscriber is still stored under the old address.
C30_Witness ==
  /\ rename.pc = "failed"
  /\ rename.data.present
  /\ store[rename.from].present
  /\ store[rename.to].present
  /\ store[rename.to] # rename.data

====
